---- MODULE Spec2Model ----
(***************************************************************************)
(* Relevance-gated recursive crawl of search-layer/scripts:                *)
(*   chain_tracker.py  (track, _get_candidates, _update_knowledge)         *)
(*   relevance_gate.py (score_candidates, _call_llm)                       *)
(*                                                                         *)
(* Encoding.  A URL is a sequence of character codes, SLASH being "/".     *)
(* Scores and thresholds are floats in the code; the model keeps them in   *)
(* tenths (0.5 is 5, 1.0 is 10), which keeps every comparison the code     *)
(* makes (score >= threshold, sort by score) exact.                        *)
(* The collaborators fetch_thread_url and the reasoning service are        *)
(* opaque: every call picks one of the outcomes listed below.              *)
(***************************************************************************)
EXTENDS Integers, Sequences, FiniteSets, TLC

VARIABLES
    \* ---- track(): arguments
    query_seeds,      \* seed_urls
    max_depth,        \* max_depth
    threshold,        \* threshold (tenths)
    max_per_level,    \* max_per_level
    has_key,          \* creds carries a non-empty grok_key
    \* ---- track(): locals
    queue,            \* list of (url, depth, score, reason)
    visited,          \* set of canonical URLs
    nodes,            \* list of recorded nodes
    knowledge_state,  \* the running summary, a sequence of text pieces
    pc,               \* track(): "loop" | "done" | "crashed"; "gate" for the stand-alone call
    result,           \* <<>> until track() returns, then <<the result object>>
    \* ---- history of the collaborators' calls
    fetches,          \* the (url, depth) of every fetch_thread_url call, in order
    last_call,        \* the most recent score_candidates call made by track()
    summary_calls,    \* the number of _update_knowledge calls made by track()
    enqueued,         \* every (canonical url, depth) ever put on the queue
    \* ---- a stand-alone call of score_candidates
    g_in,             \* its arguments and the service's answer
    g_out,            \* <<>> before the call, then <<[raised, out]>>
    \* ---- a stand-alone call of another function, pc naming it
    call_in,          \* its arguments and its collaborators' answers
    call_out          \* <<>> before the call, then <<its result>>

vars == <<query_seeds, max_depth, threshold, max_per_level, has_key,
          queue, visited, nodes, knowledge_state, pc, result,
          fetches, last_call, summary_calls, enqueued,
          g_in, g_out, call_in, call_out>>

trackVars == <<query_seeds, max_depth, threshold, max_per_level, has_key,
               queue, visited, nodes, knowledge_state, result,
               fetches, last_call, summary_calls, enqueued>>

-----------------------------------------------------------------------------
\* Bounds of the model

MaxSeeds == 2
MaxDepthBound == 2
MaxPerLevelBound == 2
MaxItems == 2
MaxGateCands == 3
MaxComments == 6
MaxRefs == 2
MaxTokens == 3
MaxCommentsArg == 2
MaxPages == 2
MaxPageSize == 2
MaxListing == 6
BigLinkCount == 25

\* Program constants

SLASH == 0
CandCap == 20
DefaultScore == 5
SeedScore == 10

ThresholdVals == {3, 5, 7}
TrackThresholds == {5, 7}
ScoreVals == {2, 5, 8, 15}

Min(a, b) == IF a <= b THEN a ELSE b
Max(a, b) == IF a >= b THEN a ELSE b

-----------------------------------------------------------------------------
\* Strings and slices

\* str.rstrip("/"): every trailing slash is removed
RECURSIVE rstrip(_)
rstrip(url) ==
    IF url # <<>> /\ url[Len(url)] = SLASH
    THEN rstrip(SubSeq(url, 1, Len(url) - 1))
    ELSE url

\* Python's s[:k]
PySlicePrefix(s, k) ==
    IF k >= 0 THEN SubSeq(s, 1, Min(k, Len(s)))
    ELSE SubSeq(s, 1, Max(0, Len(s) + k))

-----------------------------------------------------------------------------
\* relevance_gate.score_candidates

\* What the reasoning service did with the one batched call.
\*   call_raises  : _call_llm raised (network error, non-2xx, no key, bad envelope)
\*   content_null : the envelope's content is null, raw is None
\*   not_json     : json.loads(text) raises JSONDecodeError (empty text included)
\*   json_scalar  : valid JSON that cannot be iterated (null, a number)
\*   json_object  : a JSON object none of whose keys contains "id"
\*   json_array   : a JSON array of objects, given by items
RespKinds == {"call_raises", "content_null", "not_json",
              "json_scalar", "json_object", "json_array"}

\* One object of the array.  has_id: the key "id" is present; score_kind:
\* "num" a number, "missing" no "score" key, "bad" a value float() rejects.
Item(hid, id, sk, sc, rs) ==
    [has_id |-> hid, id |-> id, score_kind |-> sk, score |-> sc, reason |-> rs]

\* score_map = {item["id"]: item for item in scores if "id" in item}
RECURSIVE BuildScoreMap(_, _)
BuildScoreMap(items, m) ==
    IF items = <<>> THEN m
    ELSE LET it == Head(items)
         IN BuildScoreMap(Tail(items),
                          IF it.has_id THEN (it.id :> it) @@ m ELSE m)

score_map(items) == BuildScoreMap(items, <<>>)

\* enumerate(candidates, 1): the key candidate i is looked up under
PositionKeyM(i) == i - 1

PositionKey(i) == i

\* s = score_map.get(i, {});  float(s.get("score", 0.5)) raises?
LookupRaises(m, i) ==
    /\ PositionKey(i) \in DOMAIN m
    /\ m[PositionKey(i)].score_kind = "bad"

\* float(s.get("score", 0.5))
MergedScore(m, i) ==
    IF PositionKey(i) \in DOMAIN m /\ m[PositionKey(i)].score_kind = "num"
    THEN m[PositionKey(i)].score
    ELSE DefaultScore

\* s.get("reason", "")
MergedReason(m, i) ==
    IF PositionKey(i) \in DOMAIN m THEN m[PositionKey(i)].reason ELSE ""

Scored(c, score, reason) ==
    [url |-> c.url, anchor |-> c.anchor, score |-> score, reason |-> reason]

\* the filter of the merge loop: if score >= threshold
Passes(score, thr) == score >= thr

\* the merge loop: candidates in order, those passing the threshold kept
RECURSIVE MergeFrom(_, _, _, _)
MergeFrom(cands, m, thr, i) ==
    IF i > Len(cands) THEN <<>>
    ELSE LET sc == MergedScore(m, i)
             rest == MergeFrom(cands, m, thr, i + 1)
         IN IF Passes(sc, thr)
            THEN <<Scored(cands[i], sc, MergedReason(m, i))>> \o rest
            ELSE rest

\* result.sort(key=score, reverse=True): list.sort is stable, and stays
\* stable under reverse=True; an element goes after those scoring >= it
InsertDescM(sorted, x) ==
    LET p == Cardinality({i \in 1..Len(sorted) : sorted[i].score > x.score})
    IN SubSeq(sorted, 1, p) \o <<x>> \o SubSeq(sorted, p + 1, Len(sorted))

InsertDesc(sorted, x) ==
    LET p == Cardinality({i \in 1..Len(sorted) : sorted[i].score >= x.score})
    IN SubSeq(sorted, 1, p) \o <<x>> \o SubSeq(sorted, p + 1, Len(sorted))

RECURSIVE SortDescFrom(_, _)
SortDescFrom(todo, sorted) ==
    IF todo = <<>> THEN sorted
    ELSE SortDescFrom(Tail(todo), InsertDesc(sorted, Head(todo)))

SortDesc(s) == SortDescFrom(s, <<>>)

\* the two fail-open returns
FailOpenM(cands, reason) ==
    [i \in 1..Len(cands) |-> Scored(cands[i], 0, reason)]

FailOpen(cands, reason) ==
    [i \in 1..Len(cands) |-> Scored(cands[i], DefaultScore, reason)]

\* every path past the empty-list return goes through the one _call_llm
\* of line 176: calls counts the requests made to the reasoning service
ReturnedM(out) == [raised |-> FALSE, calls |-> Len(out), out |-> out]

Returned(out) == [raised |-> FALSE, calls |-> 1, out |-> out]
Raised == [raised |-> TRUE, calls |-> 1, out |-> <<>>]

\* score_candidates(query, candidates, knowledge_state, threshold, creds)
\* against the service answer resp
score_candidates(cands, thr, resp) ==
    IF cands = <<>> THEN [raised |-> FALSE, calls |-> 0, out |-> <<>>]
    ELSE IF resp.kind = "call_raises" THEN Returned(FailOpen(cands, "LLM unavailable"))
    ELSE IF resp.kind = "content_null" THEN Raised
    ELSE IF resp.kind = "not_json" THEN Returned(FailOpen(cands, "parse error"))
    ELSE IF resp.kind = "json_scalar" THEN Raised
    ELSE LET items == IF resp.kind = "json_array" THEN resp.items ELSE <<>>
             m == score_map(items)
         IN IF \E i \in 1..Len(cands) : LookupRaises(m, i)
            THEN Raised
            ELSE Returned(SortDesc(MergeFrom(cands, m, thr, 1)))

-----------------------------------------------------------------------------
\* chain_tracker._get_candidates

\* for entry in entries: if url and url not in seen: seen.add(url); append
RECURSIVE Collect(_, _)
Collect(entries, cands) ==
    IF entries = <<>> THEN cands
    ELSE LET e == Head(entries)
             seen == {cands[i].url : i \in 1..Len(cands)}
         IN Collect(Tail(entries),
                    IF e.url # <<>> /\ e.url \notin seen
                    THEN Append(cands, [url |-> e.url, anchor |-> e.anchor])
                    ELSE cands)

\* a ref enters with its type as anchor
RefEntries(refs) == [i \in 1..Len(refs) |-> [url |-> refs[i].url, anchor |-> refs[i].type]]

\* links first, then refs, one seen set over raw URLs
get_candidatesM(data) == Collect(data.links, Collect(RefEntries(data.refs), <<>>))

get_candidates(data) == Collect(RefEntries(data.refs), Collect(data.links, <<>>))

-----------------------------------------------------------------------------
\* chain_tracker._update_knowledge

\* a comment is modelled by its body: a string or JSON null
BodyKinds == {"str", "null"}

NodeCommentCap == 10
KeyCommentCap == 5

\* node["comments"] = data.get("comments", [])[:10]
NodeComments(data) == PySlicePrefix(data.comments, NodeCommentCap)

\* the prompt is built before the try: c.get("body", "")[:100] over the
\* first five comments raises TypeError on a body that is None
update_knowledge_raises(comments) ==
    LET key == PySlicePrefix(comments, KeyCommentCap)
    IN \E i \in 1..Len(key) : key[i] = "null"

\* what the reasoning call of _update_knowledge may do
KnowOutcomes == {"raise", "content_null", "text"}

\* the textual fallback of the except branch
Fallback(ks, title) ==
    IF ks # <<>> THEN ks \o <<" Also read: ", title, ".">>
    ELSE <<"Read: ", title, ".">>

\* outcome "raise": _call_llm raised; "content_null": it returned None and
\* raw.strip() raised inside the try; both take the textual fallback;
\* outcome "text": the service answered, raw.strip() is the new summary
update_knowledge(ks, title, outcome) ==
    IF outcome \in {"raise", "content_null"}
    THEN Fallback(ks, title)
    ELSE <<"summary">>

\* one call of _update_knowledge(knowledge_state, node, creds)
update_knowledge_call(ks, title, comments, outcome) ==
    IF update_knowledge_raises(comments)
    THEN [raised |-> TRUE, out |-> <<>>]
    ELSE [raised |-> FALSE, out |-> update_knowledge(ks, title, outcome)]

-----------------------------------------------------------------------------
\* The pages fetch_thread_url can return

U(n) == <<n>>
WithSlash(url) == url \o <<SLASH>>

Link(url, anchor) == [url |-> url, anchor |-> anchor]
Ref(url, type) == [url |-> url, type |-> type]

Page(title, links, refs) ==
    [raised |-> FALSE, error |-> FALSE, title |-> title, links |-> links,
     refs |-> refs, comments |-> <<>>]

FetchRaises ==
    [raised |-> TRUE, error |-> FALSE, title |-> "", links |-> <<>>,
     refs |-> <<>>, comments |-> <<>>]

\* a page linking on, referring back to its own URL with a trailing slash
PageA == Page("A",
              <<Link(U(2), "x"), Link(U(3), "y"), Link(U(2), "x2")>>,
              <<Ref(WithSlash(U(1)), "issue"), Ref(WithSlash(U(3)), "related")>>)

\* a page with refs only: one on, one without URL, one back to the seed
PageB == Page("B", <<>>, <<Ref(U(3), "issue"), Ref(<<>>, "url"), Ref(U(1), "pr")>>)

\* a generic web page with BigLinkCount distinct links and no refs
PageBig == Page("Big", [i \in 1..BigLinkCount |-> Link(U(9 + i), "l")], <<>>)

PageLeaf == Page("L", <<>>, <<>>)

\* a V2EX topic whose replies JSON carries "content": null: fetch_v2ex keeps
\* the reply in comments and falls back to the web fetch for the rest
PageNullReply ==
    [Page("N", <<>>, <<>>) EXCEPT !.comments = <<"str", "null">>, !.error = TRUE]

\* the document of a fetch that met a network or parse error: fetch_web_page
\* catches the exception and returns its defaults with the error field set
PageError == [Page("", <<>>, <<>>) EXCEPT !.error = TRUE]

\* what fetch_thread_url(url) may do
FetchOutcomes(url) ==
    LET c == rstrip(url)
    IN IF c = U(1) THEN {PageA, PageBig, PageError, FetchRaises}
       ELSE IF c = U(2) THEN {PageB, PageNullReply, FetchRaises}
       ELSE {PageLeaf}

\* what the reasoning service may answer to a scoring call of track()
Resp(kind, items) == [kind |-> kind, items |-> items]

TrackItems ==
    {Item(TRUE, 2, "num", 8, "r"), Item(TRUE, 1, "num", 2, "r"),
     Item(TRUE, 1, "bad", 0, "r")}

TrackResponses ==
    IF has_key
    THEN {Resp(k, <<>>) : k \in RespKinds} \cup {Resp("json_array", <<it>>) : it \in TrackItems}
    ELSE {Resp("call_raises", <<>>)}

\* _call_llm raises at once without a key
SummaryOutcomes == IF has_key THEN {"raise", "text"} ELSE {"raise"}

-----------------------------------------------------------------------------
\* chain_tracker.track

Entry(url, depth, score, reason) ==
    [url |-> url, depth |-> depth, score |-> score, reason |-> reason]

SeedURLs == {U(1), WithSlash(U(1)), U(2)}

SeedLists == UNION {[1..n -> SeedURLs] : n \in 0..MaxSeeds}

NoCall == [calls |-> 0, n_cands |-> 0, n_scored |-> 0, n_enq |-> 0]

NoGate == [cands |-> <<>>, threshold |-> DefaultScore, resp |-> Resp("call_raises", <<>>)]

\* an entry put on the queue, by the URL the visited set knows it by
Enqueued(url, depth) == [url |-> rstrip(url), depth |-> depth]

InitTrack ==
    /\ query_seeds \in SeedLists
    /\ max_depth \in -1..MaxDepthBound
    /\ threshold \in TrackThresholds
    /\ max_per_level \in 0..MaxPerLevelBound
    /\ has_key \in BOOLEAN
    /\ queue = [i \in 1..Len(query_seeds) |-> Entry(query_seeds[i], 0, SeedScore, "seed")]
    /\ visited = {}
    /\ nodes = <<>>
    /\ knowledge_state = <<>>
    /\ pc = "loop"
    /\ result = <<>>
    /\ fetches = <<>>
    /\ last_call = NoCall
    /\ summary_calls = 0
    /\ enqueued = {Enqueued(query_seeds[i], 0) : i \in 1..Len(query_seeds)}
    /\ g_in = NoGate
    /\ g_out = <<>>
    /\ call_in = <<>>
    /\ call_out = <<>>

\* if canon in visited or depth > max_depth: continue
TooDeepM(depth) == FALSE

TooDeep(depth) == depth > max_depth

SeenM(url) == url \in visited

Seen(url) == rstrip(url) \in visited

\* if depth >= max_depth: continue
AtMaxDepth(depth) == depth >= max_depth

NodeM(e, data) ==
    [url |-> e.url, depth |-> e.depth, title |-> data.title,
     score |-> SeedScore, reason |-> "seed"]

Node(e, data) ==
    [url |-> e.url, depth |-> e.depth, title |-> data.title,
     score |-> e.score, reason |-> e.reason]

\* queue.append((c["url"], depth + 1, c["score"], c.get("reason", "")))
ChildDepthM(depth) == depth

ChildDepth(depth) == depth + 1

Children(scored, depth) ==
    [i \in 1..Len(scored) |->
        Entry(scored[i].url, ChildDepth(depth), scored[i].score, scored[i].reason)]

\* queue.pop(0) takes the front, queue.append adds at the back
EnqueueM(rest, children) == children \o rest

Enqueue(rest, children) == rest \o children

\* candidates[:20]
CapM(cands) == cands

Cap(cands) == PySlicePrefix(cands, CandCap)

\* scored[:max_per_level]
TopKM(scored) == scored

TopK(scored) == PySlicePrefix(scored, max_per_level)

\* visited.add(canon), before the fetch is tried
MarkM(url) == visited \cup {url}

Mark(url) == visited \cup {rstrip(url)}

\* the entry is popped and dropped: visited before, or too deep
Skip ==
    /\ pc = "loop" /\ queue # <<>>
    /\ LET e == Head(queue)
       IN Seen(e.url) \/ TooDeep(e.depth)
    /\ queue' = Tail(queue)
    /\ UNCHANGED <<query_seeds, max_depth, threshold, max_per_level, has_key, enqueued,
                   visited, nodes, knowledge_state, pc, result,
                   fetches, last_call, summary_calls, g_in, g_out, call_in, call_out>>

\* one call of fetch_thread_url, and whether it raised
Fetched(e, data) ==
    [url |-> e.url, depth |-> e.depth, raised |-> data.raised, error |-> data.error]

\* except Exception: continue, after the URL was marked visited
FetchFailM ==
    /\ pc = "loop" /\ queue # <<>>
    /\ LET e == Head(queue)
       IN /\ ~(Seen(e.url) \/ TooDeep(e.depth))
          /\ FetchRaises \in FetchOutcomes(e.url)
          /\ visited' = Mark(e.url)
          /\ fetches' = Append(fetches, Fetched(e, FetchRaises))
          /\ nodes' = Append(nodes, Node(e, FetchRaises))
    /\ queue' = Tail(queue)
    /\ UNCHANGED <<query_seeds, max_depth, threshold, max_per_level, has_key, enqueued,
                   knowledge_state, pc, result, last_call, summary_calls,
                   g_in, g_out, call_in, call_out>>

\* fetch_thread_url raises: the URL stays visited, no node
FetchFail ==
    /\ pc = "loop" /\ queue # <<>>
    /\ LET e == Head(queue)
       IN /\ ~(Seen(e.url) \/ TooDeep(e.depth))
          /\ FetchRaises \in FetchOutcomes(e.url)
          /\ visited' = Mark(e.url)
          /\ fetches' = Append(fetches, Fetched(e, FetchRaises))
    /\ queue' = Tail(queue)
    /\ UNCHANGED <<query_seeds, max_depth, threshold, max_per_level, has_key, enqueued,
                   nodes, knowledge_state, pc, result, last_call, summary_calls,
                   g_in, g_out, call_in, call_out>>

\* the part every successful fetch shares: mark, fetch, record, summarise
RecordM(e, data, outcome) ==
    /\ ~update_knowledge_raises(NodeComments(data))
    /\ visited' = Mark(e.url)
    /\ fetches' = Append(fetches, Fetched(e, data))
    /\ nodes' = Append(nodes, Node(e, data))
    /\ knowledge_state' = update_knowledge(<<>>, data.title, outcome)
    /\ summary_calls' = summary_calls + 1

Record(e, data, outcome) ==
    /\ ~update_knowledge_raises(NodeComments(data))
    /\ visited' = Mark(e.url)
    /\ fetches' = Append(fetches, Fetched(e, data))
    /\ nodes' = Append(nodes, Node(e, data))
    /\ knowledge_state' = update_knowledge(knowledge_state, data.title, outcome)
    /\ summary_calls' = summary_calls + 1

\* a node at max_depth is recorded and not expanded
VisitTerminal ==
    /\ pc = "loop" /\ queue # <<>>
    /\ LET e == Head(queue)
       IN /\ ~(Seen(e.url) \/ TooDeep(e.depth))
          /\ AtMaxDepth(e.depth)
          /\ \E data \in FetchOutcomes(e.url) \ {FetchRaises} :
             \E outcome \in SummaryOutcomes :
                Record(e, data, outcome)
    /\ queue' = Tail(queue)
    /\ UNCHANGED <<query_seeds, max_depth, threshold, max_per_level, has_key, enqueued,
                   pc, result, last_call, g_in, g_out, call_in, call_out>>

\* a node whose document yields no candidate
VisitNoCandidates ==
    /\ pc = "loop" /\ queue # <<>>
    /\ LET e == Head(queue)
       IN /\ ~(Seen(e.url) \/ TooDeep(e.depth))
          /\ ~AtMaxDepth(e.depth)
          /\ \E data \in FetchOutcomes(e.url) \ {FetchRaises} :
             \E outcome \in SummaryOutcomes :
                /\ get_candidates(data) = <<>>
                /\ Record(e, data, outcome)
    /\ queue' = Tail(queue)
    /\ UNCHANGED <<query_seeds, max_depth, threshold, max_per_level, has_key, enqueued,
                   pc, result, last_call, g_in, g_out, call_in, call_out>>

\* _update_knowledge raises while building its prompt: the node is already
\* appended, the exception leaves track(), no result object
SummaryCrash ==
    /\ pc = "loop" /\ queue # <<>>
    /\ LET e == Head(queue)
       IN /\ ~(Seen(e.url) \/ TooDeep(e.depth))
          /\ \E data \in FetchOutcomes(e.url) \ {FetchRaises} :
                /\ update_knowledge_raises(NodeComments(data))
                /\ visited' = Mark(e.url)
                /\ fetches' = Append(fetches, Fetched(e, data))
                /\ nodes' = Append(nodes, Node(e, data))
    /\ summary_calls' = summary_calls + 1
    /\ queue' = Tail(queue)
    /\ pc' = "crashed"
    /\ UNCHANGED <<query_seeds, max_depth, threshold, max_per_level, has_key, enqueued,
                   knowledge_state, result, last_call, g_in, g_out, call_in, call_out>>

\* a node is expanded: cap, score, enqueue the top max_per_level
VisitExpand ==
    /\ pc = "loop" /\ queue # <<>>
    /\ LET e == Head(queue)
       IN /\ ~(Seen(e.url) \/ TooDeep(e.depth))
          /\ ~AtMaxDepth(e.depth)
          /\ \E data \in FetchOutcomes(e.url) \ {FetchRaises} :
             \E outcome \in SummaryOutcomes :
             \E resp \in TrackResponses :
                LET candidates == Cap(get_candidates(data))
                    r == score_candidates(candidates, threshold, resp)
                    top == TopK(r.out)
                IN /\ get_candidates(data) # <<>>
                   /\ ~r.raised
                   /\ Record(e, data, outcome)
                   /\ queue' = Enqueue(Tail(queue), Children(top, e.depth))
                   /\ enqueued' = enqueued \cup
                         {Enqueued(top[k].url, ChildDepth(e.depth)) : k \in 1..Len(top)}
                   /\ last_call' = [calls |-> last_call.calls + r.calls,
                                    n_cands |-> Len(candidates),
                                    n_scored |-> Len(r.out),
                                    n_enq |-> Len(top)]
    /\ UNCHANGED <<query_seeds, max_depth, threshold, max_per_level, has_key,
                   pc, result, g_in, g_out, call_in, call_out>>

\* score_candidates raises: the exception leaves track(), no result object
ExpandCrash ==
    /\ pc = "loop" /\ queue # <<>>
    /\ LET e == Head(queue)
       IN /\ ~(Seen(e.url) \/ TooDeep(e.depth))
          /\ ~AtMaxDepth(e.depth)
          /\ \E data \in FetchOutcomes(e.url) \ {FetchRaises} :
             \E outcome \in SummaryOutcomes :
             \E resp \in TrackResponses :
                LET candidates == Cap(get_candidates(data))
                    r == score_candidates(candidates, threshold, resp)
                IN /\ get_candidates(data) # <<>>
                   /\ r.raised
                   /\ Record(e, data, outcome)
                   /\ last_call' = [calls |-> last_call.calls + r.calls,
                                    n_cands |-> Len(candidates),
                                    n_scored |-> 0,
                                    n_enq |-> 0]
    /\ queue' = Tail(queue)
    /\ pc' = "crashed"
    /\ UNCHANGED <<query_seeds, max_depth, threshold, max_per_level, has_key, enqueued,
                   result, g_in, g_out, call_in, call_out>>

\* while queue: ends; the result object is returned
Return ==
    /\ pc = "loop" /\ queue = <<>>
    /\ pc' = "done"
    /\ result' = <<[knowledge_state |-> knowledge_state, nodes |-> nodes,
                    total_fetched |-> Len(nodes)]>>
    /\ UNCHANGED <<query_seeds, max_depth, threshold, max_per_level, has_key, enqueued,
                   queue, visited, nodes, knowledge_state, fetches, last_call,
                   summary_calls, g_in, g_out, call_in, call_out>>

Init == InitTrack

Next ==
    \/ Skip
    \/ FetchFail
    \/ VisitTerminal
    \/ VisitNoCandidates
    \/ SummaryCrash
    \/ VisitExpand
    \/ ExpandCrash
    \/ Return

Spec == Init /\ [][Next]_vars

-----------------------------------------------------------------------------
\* A stand-alone call of score_candidates on drawn inputs

GateCands(n) == [i \in 1..n |-> [url |-> U(i), anchor |-> "a"]]

GateIds == 1..(MaxGateCands + 1)

GateItems ==
    {Item(TRUE, i, "num", s, "r") : i \in GateIds, s \in ScoreVals}
        \cup {Item(TRUE, i, k, 0, "r") : i \in GateIds, k \in {"missing", "bad"}}
        \cup {Item(FALSE, 0, "num", s, "r") : s \in ScoreVals}
        \cup {Item(FALSE, 0, k, 0, "r") : k \in {"missing", "bad"}}

GateArrays == UNION {[1..n -> GateItems] : n \in 0..MaxItems}

GateResponses ==
    {Resp(k, <<>>) : k \in RespKinds \ {"json_array"}}
        \cup {Resp("json_array", a) : a \in GateArrays}

InitGate ==
    /\ query_seeds = <<>>
    /\ max_depth = 0
    /\ threshold = DefaultScore
    /\ max_per_level = 0
    /\ has_key = TRUE
    /\ queue = <<>>
    /\ visited = {}
    /\ nodes = <<>>
    /\ knowledge_state = <<>>
    /\ pc = "gate"
    /\ result = <<>>
    /\ fetches = <<>>
    /\ last_call = NoCall
    /\ summary_calls = 0
    /\ enqueued = {}
    /\ call_in = <<>>
    /\ call_out = <<>>
    /\ g_in \in [cands : {GateCands(n) : n \in 0..MaxGateCands},
                 threshold : ThresholdVals,
                 resp : GateResponses]
    /\ g_out = <<>>

GateCall ==
    /\ pc = "gate" /\ g_out = <<>>
    /\ g_out' = <<score_candidates(g_in.cands, g_in.threshold, g_in.resp)>>
    /\ UNCHANGED <<trackVars, pc, g_in, call_in, call_out>>

NextGate == GateCall

SpecGate == InitGate /\ [][NextGate]_vars

-----------------------------------------------------------------------------
\* Properties of track()

\* the arithmetic of the fetch bounds
RECURSIVE Pow(_, _)
Pow(b, e) == IF e <= 0 THEN 1 ELSE b * Pow(b, e - 1)

RECURSIVE GeomSum(_, _)
GeomSum(b, e) == IF e < 0 THEN 0 ELSE Pow(b, e) + GeomSum(b, e - 1)

\* C1: in one run of track() fetch_thread_url is called at most once per
\* canonical URL (the URL without trailing slashes), whether the URL comes
\* from several seeds or is discovered by several documents.
C1_NoRefetch ==
    \A i, j \in DOMAIN fetches :
        i # j => rstrip(fetches[i].url) # rstrip(fetches[j].url)

\* a discovered entry waits in the queue for a URL fetched before, and a seed
\* list names one canonical URL twice
C1_Witness ==
    /\ Len(fetches) >= 2
    /\ \E i \in DOMAIN queue :
          /\ queue[i].depth > 0
          /\ rstrip(queue[i].url) \in visited
          /\ queue[i].url \notin visited

\* C2: no URL is fetched and no node is recorded at a depth above max_depth.
C2_DepthBound ==
    /\ \A i \in DOMAIN nodes : nodes[i].depth <= max_depth
    /\ \A i \in DOMAIN fetches : fetches[i].depth <= max_depth

\* a node sits at the deepest level allowed
C2_Witness ==
    /\ max_depth >= 1
    /\ \E i \in DOMAIN nodes : nodes[i].depth = max_depth

\* C3: seed entries have depth 0; the entries enqueued while expanding a node
\* of depth d have depth d+1; a node has the depth of the entry it came from.
C3_Depths ==
    /\ \A i \in DOMAIN queue : queue[i].depth = 0
    /\ [][queue # <<>> =>
            /\ Len(nodes') = Len(nodes) + 1 =>
                  nodes'[Len(nodes')].depth = Head(queue).depth
            /\ \A i \in Len(queue)..Len(queue') :
                  /\ Len(nodes') = Len(nodes) + 1
                  /\ queue'[i].depth = nodes'[Len(nodes')].depth + 1
            /\ \A i \in 1..(Len(queue) - 1) :
                  i <= Len(queue') /\ queue'[i] = queue[i + 1]]_vars

\* a node two hops from its seed was recorded
C3_Witness ==
    \E i \in DOMAIN nodes : nodes[i].depth = 2 /\ nodes[i].reason # "seed"

\* C4: the candidate list handed to score_candidates has at most 20 entries
\* and at most max_per_level entries are enqueued for the node, also when the
\* scorer fails open and returns every candidate.
C4_Caps ==
    /\ last_call.n_cands <= CandCap
    /\ last_call.n_enq <= max_per_level

\* a page with more than 20 links was scored, the scorer returned all 20
C4_Witness ==
    /\ last_call.calls >= 1
    /\ last_call.n_cands = CandCap
    /\ last_call.n_scored = CandCap
    /\ max_per_level >= 1
    /\ last_call.n_enq = max_per_level

\* C5 as stated: the number of fetches is at most s * max_per_level^max_depth.
C5_Original ==
    max_depth >= 0 =>
        Len(fetches) <= Len(query_seeds) * Pow(max_per_level, max_depth)

\* C5 amended: the number of fetches, and total_fetched, is at most
\* s * (1 + max_per_level + ... + max_per_level^max_depth), the sum over
\* the levels 0..max_depth (0 when max_depth < 0).
C5_FetchBound ==
    /\ Len(fetches) <= Len(query_seeds) * GeomSum(max_per_level, max_depth)
    /\ result # <<>> =>
          result[1].total_fetched <= Len(query_seeds) * GeomSum(max_per_level, max_depth)

\* one seed, two per level, one level down: three fetches, the bound itself
C5_Witness ==
    /\ pc = "done"
    /\ Len(query_seeds) = 1 /\ max_depth = 1 /\ max_per_level = 2
    /\ Len(fetches) = 3
    /\ result[1].total_fetched = 3

\* C6: whatever the scoring service does, score_candidates returns a list and
\* track() goes on to return a result object.
C6_NeverAborts == pc # "crashed"

-----------------------------------------------------------------------------
\* Properties of score_candidates

GateDone == pc = "gate" /\ g_out # <<>>

\* the candidate position an output entry came from
PosOf(e) == CHOOSE i \in DOMAIN g_in.cands : g_in.cands[i].url = e.url

\* every candidate, in order, at the neutral score with the given reason
AllAtDefault(out, reason) ==
    /\ Len(out) = Len(g_in.cands)
    /\ \A i \in DOMAIN out :
          /\ out[i].url = g_in.cands[i].url
          /\ out[i].anchor = g_in.cands[i].anchor
          /\ out[i].score = DefaultScore
          /\ out[i].reason = reason

\* C7: when the service call raises, exactly the input candidates come back,
\* in order, each with score 0.5 and reason "LLM unavailable", whatever the
\* threshold.
C7_FailOpenOnCallFailure ==
    (GateDone /\ g_in.resp.kind = "call_raises") =>
        /\ ~g_out[1].raised
        /\ AllAtDefault(g_out[1].out, "LLM unavailable")

\* the call failed under a threshold above 0.5 and nothing was dropped
C7_Witness ==
    /\ GateDone /\ g_in.resp.kind = "call_raises"
    /\ g_in.threshold > DefaultScore
    /\ Len(g_in.cands) >= 2
    /\ Len(g_out[1].out) = Len(g_in.cands)

\* C8: when the service's text cannot be parsed as the expected score array,
\* every candidate comes back with score 0.5 and reason "parse error".
C8_FailOpenOnUnparseable ==
    (GateDone /\ g_in.cands # <<>>
        /\ g_in.resp.kind \in {"not_json", "json_scalar", "json_object"}) =>
        /\ ~g_out[1].raised
        /\ AllAtDefault(g_out[1].out, "parse error")

\* the score the response assigns to candidate i: that of the last item
\* whose id is i, the default if there is none or it carries no score
ItemsFor(i) ==
    {j \in DOMAIN g_in.resp.items :
        g_in.resp.items[j].has_id /\ g_in.resp.items[j].id = i}

LastItemFor(i) ==
    g_in.resp.items[CHOOSE j \in ItemsFor(i) : \A k \in ItemsFor(i) : k <= j]

ExpectedScore(i) ==
    IF ItemsFor(i) = {} THEN DefaultScore
    ELSE IF LastItemFor(i).score_kind = "num" THEN LastItemFor(i).score
    ELSE DefaultScore

Parsed == GateDone /\ g_in.resp.kind = "json_array" /\ ~g_out[1].raised

\* C9: on a parsed response the result holds exactly the candidates whose
\* merged score is >= threshold, by descending score, equal scores in
\* candidate order; so does every prefix track() takes of it.
C9_FilterAndStableOrder ==
    Parsed =>
        LET out == g_out[1].out
        IN /\ {out[a].url : a \in DOMAIN out} =
                 {g_in.cands[i].url : i \in {n \in DOMAIN g_in.cands :
                                               ExpectedScore(n) >= g_in.threshold}}
           /\ \A a, b \in DOMAIN out :
                 a < b =>
                    \/ out[a].score > out[b].score
                    \/ /\ out[a].score = out[b].score
                       /\ PosOf(out[a]) < PosOf(out[b])
           /\ \A k \in 0..MaxPerLevelBound :
                 \A a \in 1..Len(PySlicePrefix(out, k)) :
                    \A b \in (Len(PySlicePrefix(out, k)) + 1)..Len(out) :
                       \/ out[a].score > out[b].score
                       \/ /\ out[a].score = out[b].score
                          /\ PosOf(out[a]) < PosOf(out[b])

\* the last candidate outranks two earlier ones, which tie and keep their order
C9_Witness ==
    /\ Parsed
    /\ Len(g_out[1].out) = 3
    /\ PosOf(g_out[1].out[1]) = 3
    /\ g_out[1].out[1].score > g_out[1].out[2].score
    /\ g_out[1].out[2].score = g_out[1].out[3].score
    /\ PosOf(g_out[1].out[2]) < PosOf(g_out[1].out[3])

\* C10: candidate i gets the score of the response item whose id is i; a
\* candidate without an item for its position gets 0.5 and is kept iff
\* 0.5 >= threshold.
C10_MergeByPosition ==
    Parsed =>
        \A i \in DOMAIN g_in.cands :
            LET hits == {a \in DOMAIN g_out[1].out :
                            g_out[1].out[a].url = g_in.cands[i].url}
            IN /\ ExpectedScore(i) >= g_in.threshold =>
                     /\ Cardinality(hits) = 1
                     /\ \A a \in hits : g_out[1].out[a].score = ExpectedScore(i)
               /\ ExpectedScore(i) < g_in.threshold => hits = {}
               /\ ItemsFor(i) = {} =>
                     /\ \A a \in hits : g_out[1].out[a].score = DefaultScore
                     /\ (hits # {}) <=> (DefaultScore >= g_in.threshold)

\* one candidate carries the score of its item, another has no item and
\* carries the default
C10_Witness ==
    /\ Parsed
    /\ \E i, j \in DOMAIN g_in.cands :
          /\ ItemsFor(i) # {} /\ ExpectedScore(i) # DefaultScore
          /\ ItemsFor(j) = {}
          /\ \E a, b \in DOMAIN g_out[1].out :
                /\ g_out[1].out[a].url = g_in.cands[i].url
                /\ g_out[1].out[a].score = ExpectedScore(i)
                /\ g_out[1].out[b].url = g_in.cands[j].url
                /\ g_out[1].out[b].score = DefaultScore

-----------------------------------------------------------------------------
\* track() runs and stand-alone score_candidates calls together

InitAll == InitTrack \/ InitGate

NextAll == Next \/ NextGate

SpecAll == InitAll /\ [][NextAll]_vars

-----------------------------------------------------------------------------
\* A stand-alone call of _update_knowledge on drawn inputs

\* the variables of track() and of the gate call, at rest
Idle ==
    /\ query_seeds = <<>>
    /\ max_depth = 0
    /\ threshold = DefaultScore
    /\ max_per_level = 0
    /\ has_key = TRUE
    /\ queue = <<>>
    /\ visited = {}
    /\ nodes = <<>>
    /\ knowledge_state = <<>>
    /\ result = <<>>
    /\ fetches = <<>>
    /\ last_call = NoCall
    /\ summary_calls = 0
    /\ enqueued = {}
    /\ g_in = NoGate
    /\ g_out = <<>>

KnowPriors == {<<>>, <<"X">>, <<"Read: ", "Z", ".">>}

KnowTitles == {"Y", ""}

CommentLists == UNION {[1..n -> BodyKinds] : n \in 0..MaxComments}

InitKnow ==
    /\ Idle
    /\ pc = "know"
    /\ call_in \in [prior : KnowPriors, title : KnowTitles,
                     comments : CommentLists, outcome : KnowOutcomes]
    /\ call_out = <<>>

KnowCall ==
    /\ pc = "know" /\ call_out = <<>>
    /\ call_out' = <<update_knowledge_call(call_in.prior, call_in.title,
                                           call_in.comments, call_in.outcome)>>
    /\ UNCHANGED <<trackVars, pc, g_in, g_out, call_in>>

NextKnow == KnowCall

SpecKnow == InitKnow /\ [][NextKnow]_vars

KnowDone == pc = "know" /\ call_out # <<>>

\* C12: _update_knowledge never raises, and when its reasoning call fails
\* it returns "{prior} Also read: {title}." for a non-empty prior summary
\* and "Read: {title}." for an empty one.
C12_FallbackNeverRaises ==
    KnowDone =>
        LET r == call_out[1]
            i == call_in
        IN /\ ~r.raised
           /\ i.outcome \in {"raise", "content_null"} =>
                 r.out = IF i.prior # <<>>
                         THEN i.prior \o <<" Also read: ", i.title, ".">>
                         ELSE <<"Read: ", i.title, ".">>

-----------------------------------------------------------------------------
\* More properties of track()

\* C13: a node recorded at depth = max_depth is terminal: the step that
\* records it scores nothing and enqueues nothing; and a run with one seed
\* and max_depth = 0 empties its queue in one iteration and ends with
\* exactly one node, at depth 0, and total_fetched = 1.
C13_TerminalAtMaxDepth ==
    /\ [][(/\ Len(nodes') = Len(nodes) + 1
           /\ nodes'[Len(nodes')].depth = max_depth)
            => (queue' = Tail(queue) /\ last_call' = last_call)]_vars
    /\ [][(Len(query_seeds) = 1 /\ max_depth = 0 /\ pc = "loop" /\ queue # <<>>)
            => queue' = <<>>]_vars
    /\ []((pc = "done" /\ Len(query_seeds) = 1 /\ max_depth = 0)
            => (/\ Len(nodes) = 1
                /\ nodes[1].depth = 0
                /\ result[1].total_fetched = 1))

-----------------------------------------------------------------------------
\* A stand-alone call of _get_candidates, and of the cap track() applies to
\* its result, on a drawn document

\* the links of a web page: _extract_links_from_html returns them distinct
\* by canonical URL
DocLinks(n) == [i \in 1..n |-> Link(U(9 + i), "l")]

\* the URLs of the refs: new ones, and the first link with and without
\* a trailing slash
RefURLs == {U(1), WithSlash(U(1)), U(10), WithSlash(U(10)), U(100)}

\* extract_refs returns refs distinct by canonical URL
DocRefs ==
    {r \in UNION {[1..n -> {Ref(u, "issue") : u \in RefURLs}] : n \in 0..MaxRefs} :
        \A i, j \in 1..Len(r) : i # j => rstrip(r[i].url) # rstrip(r[j].url)}

InitCands ==
    /\ Idle
    /\ pc = "cands"
    /\ call_in \in [links : {DocLinks(n) : n \in 0..BigLinkCount}, refs : DocRefs]
    /\ call_out = <<>>

CandsCall ==
    /\ pc = "cands" /\ call_out = <<>>
    /\ LET c == get_candidates(call_in)
       IN call_out' = <<[cands |-> c, capped |-> Cap(c)]>>
    /\ UNCHANGED <<trackVars, pc, g_in, g_out, call_in>>

NextCands == CandsCall

SpecCands == InitCands /\ [][NextCands]_vars

CandsDone == pc = "cands" /\ call_out # <<>>

URLsOf(s) == [i \in 1..Len(s) |-> s[i].url]

\* the entries of s whose URL is not among those of earlier
NewIn(s, earlier) ==
    SelectSeq(s, LAMBDA x : \A i \in 1..Len(earlier) : earlier[i].url # x.url)

\* C14 as stated: the candidate list holds the refs first and the links
\* after them, each in discovery order.
C14_Original ==
    CandsDone =>
        URLsOf(call_out[1].cands) =
            URLsOf(call_in.refs) \o URLsOf(NewIn(call_in.links, call_in.refs))

\* C14: the candidate list holds the document's links first and its refs
\* after them, each in discovery order, and the cap keeps its first 20
\* entries: a link is dropped only when no ref is kept.
C14_LinksThenRefs ==
    CandsDone =>
        LET c == call_out[1].cands
            capped == call_out[1].capped
            L == call_in.links
        IN /\ URLsOf(c) = URLsOf(L) \o URLsOf(NewIn(call_in.refs, L))
           /\ \A i \in 1..Len(L) : c[i].anchor = L[i].anchor
           /\ \A i \in Len(L) + 1..Len(c) : c[i].anchor = "issue"
           /\ capped = SubSeq(c, 1, Min(Len(c), CandCap))
           /\ (\E i \in 1..Len(capped) : capped[i].anchor = "issue")
                 => \A i \in 1..Len(L) : capped[i] = c[i]

\* 19 links and two new refs: the cap keeps every link and the first ref
C14_Witness ==
    /\ CandsDone
    /\ Len(call_in.links) = CandCap - 1
    /\ Len(call_out[1].cands) = CandCap + 1
    /\ Len(call_out[1].capped) = CandCap
    /\ call_out[1].capped[CandCap].anchor = "issue"

\* C15: the candidate list holds no two entries with the same canonical
\* URL, two URLs that differ only by a trailing slash being the same.
C15_NoCanonicalDuplicates ==
    CandsDone =>
        LET c == call_out[1].cands
        IN \A i, j \in 1..Len(c) : i # j => rstrip(c[i].url) # rstrip(c[j].url)

-----------------------------------------------------------------------------
\* fetch_thread.extract_refs
\*
\* A text is a sequence of whitespace-separated tokens; a token records what
\* the patterns of _REF_PATTERNS can see of it. URLs are the sequences of
\* their path segments, SLASH between them.

GitHubHost == 101
ExtHost == 102
Issues == 201
Pull == 202
Discussions == 203
Commit == 204
NoRepo == 0
RepoAB == 301
RepoXY == 302
Sha1 == 401

\* f"https://github.com/{repo}/{url_type}/{num}"
GitHubURL(repo, path, n) == <<GitHubHost, SLASH, repo, SLASH, path, SLASH, n>>

\* a non-GitHub URL, as written in the text
ExtURL(id, slash) ==
    IF slash THEN <<ExtHost, SLASH, id, SLASH>> ELSE <<ExtHost, SLASH, id>>

\* kind:   "hash" (#N, owner/repo#N), "gh" (GH-N), "ghurl", "commiturl",
\*         "sha" (40 hex digits), "ext" (non-GitHub URL), "word"
\* phrase: the words before the token: "dup" (duplicate of, dup, ...),
\*         "rel" (see also, related, fixes, ...), "none"
\* delim:  the token is followed by whitespace, punctuation or the end
\* image:  the URL is written with an image suffix (.png) after its id
Token(kind, repo, path, n, phrase, delim, slash, image) ==
    [kind |-> kind, repo |-> repo, path |-> path, n |-> n, phrase |-> phrase,
     delim |-> delim, slash |-> slash, image |-> image]

Hash(repo, n, phrase, delim) == Token("hash", repo, Issues, n, phrase, delim, FALSE, FALSE)
GH(n) == Token("gh", NoRepo, Issues, n, "none", TRUE, FALSE, FALSE)
GhUrl(repo, path, n, phrase) == Token("ghurl", repo, path, n, phrase, TRUE, FALSE, FALSE)
CommitUrl(repo, sha) == Token("commiturl", repo, Commit, sha, "none", TRUE, FALSE, FALSE)
Sha(sha, delim) == Token("sha", NoRepo, Commit, sha, "none", delim, FALSE, FALSE)
Ext(id, slash, image) == Token("ext", NoRepo, Issues, id, "none", TRUE, slash, image)
Word == Token("word", NoRepo, Issues, 0, "none", TRUE, FALSE, FALSE)

\* a ref; its context is the place of the match in the text
TextRef(type, url, pos) == [type |-> type, url |-> url, context |-> pos]

\* what one pattern yields on the token at pos: a sequence of zero or one ref
issue_ref(tok, repo_context, pos) ==
    LET repo == IF tok.repo # NoRepo THEN tok.repo ELSE repo_context
    IN IF tok.kind = "hash" /\ tok.delim /\ repo # NoRepo
       THEN <<TextRef("issue", GitHubURL(repo, Issues, tok.n), pos)>>
       ELSE <<>>

gh_ref(tok, repo_context, pos) ==
    IF tok.kind = "gh" /\ tok.delim /\ repo_context # NoRepo
    THEN <<TextRef("issue", GitHubURL(repo_context, Issues, tok.n), pos)>>
    ELSE <<>>

github_url(tok, repo_context, pos) ==
    IF tok.kind = "ghurl"
    THEN <<TextRef(IF tok.path = Issues THEN "issue"
                   ELSE IF tok.path = Pull THEN "pr" ELSE "discussion",
                   GitHubURL(tok.repo, tok.path, tok.n), pos)>>
    ELSE <<>>

commit_url(tok, repo_context, pos) ==
    IF tok.kind = "commiturl"
    THEN <<TextRef("commit", GitHubURL(tok.repo, Commit, tok.n), pos)>>
    ELSE <<>>

full_shaM(tok, repo_context, pos) ==
    IF tok.kind = "sha" /\ tok.delim
    THEN <<TextRef("commit", GitHubURL(repo_context, Commit, tok.n), pos)>>
    ELSE <<>>

full_sha(tok, repo_context, pos) ==
    IF tok.kind = "sha" /\ tok.delim /\ repo_context # NoRepo
    THEN <<TextRef("commit", GitHubURL(repo_context, Commit, tok.n), pos)>>
    ELSE <<>>

\* the pattern ends at the digits: no delimiter is asked after them
duplicate(tok, repo_context, pos) ==
    IF tok.kind = "hash" /\ tok.repo = NoRepo /\ tok.phrase = "dup"
       /\ repo_context # NoRepo
    THEN <<TextRef("duplicate", GitHubURL(repo_context, Issues, tok.n), pos)>>
    ELSE <<>>

duplicate_url(tok, repo_context, pos) ==
    IF tok.kind = "ghurl" /\ tok.phrase = "dup" /\ tok.path \in {Issues, Pull}
    THEN <<TextRef("duplicate", GitHubURL(tok.repo, tok.path, tok.n), pos)>>
    ELSE <<>>

related_ref(tok, repo_context, pos) ==
    IF tok.kind = "hash" /\ tok.repo = NoRepo /\ tok.phrase = "rel"
       /\ repo_context # NoRepo
    THEN <<TextRef("related", GitHubURL(repo_context, Issues, tok.n), pos)>>
    ELSE <<>>

\* the lazy match ends before the first ".": of a URL written with an image
\* suffix the group holds the part before the suffix, which the image test
\* of line 209 lets through
external_url(tok, repo_context, pos) ==
    IF tok.kind = "ext"
    THEN <<TextRef("url", ExtURL(tok.n, tok.slash), pos)>>
    ELSE <<>>

\* _REF_PATTERNS, in order
RefPatterns ==
    <<"issue_ref", "gh_ref", "github_url", "commit_url", "full_sha",
      "duplicate", "duplicate_url", "related_ref", "external_url">>

PatternMatch(kind, tok, repo_context, pos) ==
    CASE kind = "issue_ref" -> issue_ref(tok, repo_context, pos)
      [] kind = "gh_ref" -> gh_ref(tok, repo_context, pos)
      [] kind = "github_url" -> github_url(tok, repo_context, pos)
      [] kind = "commit_url" -> commit_url(tok, repo_context, pos)
      [] kind = "full_sha" -> full_sha(tok, repo_context, pos)
      [] kind = "duplicate" -> duplicate(tok, repo_context, pos)
      [] kind = "duplicate_url" -> duplicate_url(tok, repo_context, pos)
      [] kind = "related_ref" -> related_ref(tok, repo_context, pos)
      [] kind = "external_url" -> external_url(tok, repo_context, pos)

\* for m in re.finditer(pattern, text): the matches of one pattern, from pos on
RECURSIVE FindIter(_, _, _, _)
FindIter(kind, text, repo_context, pos) ==
    IF pos > Len(text) THEN <<>>
    ELSE PatternMatch(kind, text[pos], repo_context, pos)
         \o FindIter(kind, text, repo_context, pos + 1)

\* for pattern, kind in _REF_PATTERNS: every ref handed to _add, in order
RECURSIVE Produced(_, _, _)
Produced(text, repo_context, k) ==
    IF k > Len(RefPatterns) THEN <<>>
    ELSE FindIter(RefPatterns[k], text, repo_context, 1)
         \o Produced(text, repo_context, k + 1)

\* _add: the ref is appended unless its canonical URL was seen
AddM(refs, ref) ==
    IF \E i \in 1..Len(refs) : refs[i].url = ref.url
    THEN refs
    ELSE Append(refs, ref)

Add(refs, ref) ==
    IF \E i \in 1..Len(refs) : rstrip(refs[i].url) = rstrip(ref.url)
    THEN refs
    ELSE Append(refs, ref)

RECURSIVE AddAll(_, _)
AddAll(produced, refs) ==
    IF produced = <<>> THEN refs
    ELSE AddAll(Tail(produced), Add(refs, Head(produced)))

extract_refs(text, repo_context) ==
    IF text = <<>> THEN <<>>
    ELSE AddAll(Produced(text, repo_context, 1), <<>>)

-----------------------------------------------------------------------------
\* A stand-alone call of extract_refs on a drawn text

TextTokens ==
    {Hash(NoRepo, 42, "rel", TRUE), Hash(NoRepo, 7, "dup", TRUE),
     Hash(NoRepo, 7, "rel", TRUE), Hash(NoRepo, 7, "none", TRUE),
     Hash(NoRepo, 7, "dup", FALSE), Hash(RepoAB, 7, "none", TRUE),
     Hash(RepoXY, 7, "none", TRUE), GH(7),
     GhUrl(RepoAB, Issues, 7, "none"), GhUrl(RepoAB, Pull, 7, "dup"),
     CommitUrl(RepoAB, Sha1), Sha(Sha1, TRUE),
     Ext(1, FALSE, FALSE), Ext(1, TRUE, FALSE), Ext(2, FALSE, TRUE), Word}

Texts == UNION {[1..n -> TextTokens] : n \in 0..MaxTokens}

InitRefs ==
    /\ Idle
    /\ pc = "refs"
    /\ call_in \in [text : Texts, repo_context : {NoRepo, RepoAB}]
    /\ call_out = <<>>

RefsCall ==
    /\ pc = "refs" /\ call_out = <<>>
    /\ call_out' = <<extract_refs(call_in.text, call_in.repo_context)>>
    /\ UNCHANGED <<trackVars, pc, g_in, g_out, call_in>>

NextRefs == RefsCall

SpecRefs == InitRefs /\ [][NextRefs]_vars

RefsDone == pc = "refs" /\ call_out # <<>>

\* "See also #42 and duplicate of #7"
SeeAlsoAndDuplicate ==
    <<Hash(NoRepo, 42, "rel", TRUE), Word, Hash(NoRepo, 7, "dup", TRUE)>>

HasRef(refs, type, url) ==
    \E i \in 1..Len(refs) : refs[i].type = type /\ refs[i].url = url

\* C16: on "See also #42 and duplicate of #7" with repo_context "a/b" the
\* result includes a ref of type related for issue 42 and a ref of type
\* duplicate for issue 7.
C16_PhraseTypes ==
    (RefsDone /\ call_in.text = SeeAlsoAndDuplicate /\ call_in.repo_context = RepoAB)
        => /\ HasRef(call_out[1], "related", GitHubURL(RepoAB, Issues, 42))
           /\ HasRef(call_out[1], "duplicate", GitHubURL(RepoAB, Issues, 7))

\* the tokens that name no repository themselves
Bare(tok) ==
    \/ tok.kind = "hash" /\ tok.repo = NoRepo
    \/ tok.kind = "gh"
    \/ tok.kind = "sha"

\* C17: without repo_context no ref comes from a bare SHA, #N, GH-N,
\* duplicate-of #N or related #N; with repo_context set, a text with a bare
\* 40-digit SHA yields exactly one commit ref, of URL
\* https://github.com/{repo_context}/commit/{sha}.
C17_RepoContextRequired ==
    RefsDone =>
        LET refs == call_out[1]
            text == call_in.text
            ctx == call_in.repo_context
        IN /\ ctx = NoRepo =>
                 \A i \in 1..Len(refs) : ~Bare(text[refs[i].context])
           /\ \A p \in 1..Len(text) :
                 (text[p].kind = "sha" /\ text[p].delim) =>
                    LET url == GitHubURL(ctx, Commit, text[p].n)
                        hits == {i \in 1..Len(refs) :
                                    refs[i].type = "commit" /\ refs[i].url = url}
                    IN Cardinality(hits) = IF ctx = NoRepo THEN 0 ELSE 1

\* a bare SHA, written twice, with repo_context set: one commit ref
C17_Witness ==
    /\ RefsDone
    /\ call_in.repo_context = RepoAB
    /\ call_in.text = <<Sha(Sha1, TRUE), Word, Sha(Sha1, TRUE)>>
    /\ call_out[1] = <<TextRef("commit", GitHubURL(RepoAB, Commit, Sha1), 1)>>

\* the refs of produced whose canonical URL no earlier one has
FirstOccurrences(produced) ==
    LET keep == {j \in 1..Len(produced) :
                    \A i \in 1..j - 1 :
                        rstrip(produced[i].url) # rstrip(produced[j].url)}
        RECURSIVE From(_)
        From(j) == IF j > Len(produced) THEN <<>>
                   ELSE (IF j \in keep THEN <<produced[j]>> ELSE <<>>) \o From(j + 1)
    IN From(1)

\* C18: the returned list holds no two refs whose URLs are equal after
\* stripping a trailing slash, and of the refs produced for one such URL it
\* holds the first, with its type and context.
C18_FirstOccurrenceWins ==
    RefsDone =>
        LET refs == call_out[1]
        IN /\ \A i, j \in 1..Len(refs) :
                 i # j => rstrip(refs[i].url) # rstrip(refs[j].url)
           /\ refs = FirstOccurrences(Produced(call_in.text, call_in.repo_context, 1))

\* one URL written with and without its trailing slash, and one issue named
\* twice: the first of each is kept
C18_Witness ==
    /\ RefsDone
    /\ call_in.repo_context = RepoAB
    /\ call_in.text = <<Ext(1, TRUE, FALSE), Ext(1, FALSE, FALSE), Hash(NoRepo, 7, "dup", TRUE)>>
    /\ call_out[1] = <<TextRef("issue", GitHubURL(RepoAB, Issues, 7), 3),
                       TextRef("url", ExtURL(1, TRUE), 1)>>

-----------------------------------------------------------------------------
\* fetch_thread.fetch_github_issue and _enrich_with_timeline
\*
\* A response of _http_get is modelled by its kind:
\*   "net_error"  _http_get raises
\*   "http_error" status >= 400
\*   "no_json"    status 200, body not JSON: r["json"] is None
\*   "object"     status 200, a non-empty JSON object
\*   "list"       status 200, a JSON array of n objects
\* The document is modelled by its type, whether its error field is set, and
\* the number of entries of its comments.

HttpResp(kind, n) == [kind |-> kind, n |-> n]

PerPageMax == 100

\* the answer to the request for comment page `page`: past the pages drawn,
\* the API answers with an empty array
PageResp(pages, page) ==
    IF page <= Len(pages) THEN pages[page] ELSE HttpResp("list", 0)

\* while fetched < max_comments: ... ; yields whether the loop raised and the
\* number of comments appended
RECURSIVE CommentLoop(_, _, _, _, _)
CommentLoop(pages, page, fetched, max_comments, per_page) ==
    IF ~(fetched < max_comments) THEN [raised |-> FALSE, fetched |-> fetched]
    ELSE LET r == PageResp(pages, page)
         IN IF r.kind \in {"net_error", "http_error", "no_json"}
            THEN [raised |-> FALSE, fetched |-> fetched]
            ELSE IF r.kind = "object"
            \* for c in comments over a dict yields its keys: c.get raises
            THEN [raised |-> TRUE, fetched |-> fetched]
            ELSE IF r.n = 0
            THEN [raised |-> FALSE, fetched |-> fetched]
            ELSE LET got == fetched + Min(r.n, max_comments - fetched)
                 IN IF r.n < per_page
                    THEN [raised |-> FALSE, fetched |-> got]
                    ELSE CommentLoop(pages, page + 1, got, max_comments, per_page)

\* the reviews of a pull request whose body is not blank are appended to
\* the comments; every exception is passed over
ReviewsAppended(is_pr, reviews) ==
    IF is_pr /\ reviews.kind = "list" THEN reviews.n ELSE 0

\* _enrich_with_timeline: TRUE when the function raises. events is taken
\* inside the try, iterated outside it
enrich_with_timeline_raises(timeline) ==
    timeline.kind \in {"no_json", "object"}

Document(raised, error, type, n_comments) ==
    [raised |-> raised, error |-> error, type |-> type, n_comments |-> n_comments]

fetch_github_issue(issue, pages, reviews, timeline, max_comments) ==
    IF issue.kind = "net_error" THEN Document(FALSE, TRUE, "github_issue", 0)
    ELSE IF issue.kind = "http_error" THEN Document(FALSE, TRUE, "github_issue", 0)
    \* issue = r["json"] is None, or a list: issue.get raises outside the try
    ELSE IF issue.kind \in {"no_json", "list"} THEN Document(TRUE, FALSE, "github_issue", 0)
    ELSE LET is_pr == issue.n = 1
             type == IF is_pr THEN "github_pr" ELSE "github_issue"
             per_page == Min(max_comments, PerPageMax)
             loop == CommentLoop(pages, 1, 0, max_comments, per_page)
             n == loop.fetched + ReviewsAppended(is_pr, reviews)
         IN IF loop.raised THEN Document(TRUE, FALSE, type, loop.fetched)
            ELSE IF enrich_with_timeline_raises(timeline)
            THEN Document(TRUE, FALSE, type, n)
            ELSE Document(FALSE, FALSE, type, n)

\* fetch_thread_url on the URL of a GitHub issue or pull request
fetch_thread_url(issue, pages, reviews, timeline, max_comments) ==
    fetch_github_issue(issue, pages, reviews, timeline, max_comments)

-----------------------------------------------------------------------------
\* A stand-alone call of fetch_thread_url on drawn API answers

\* an issue object has n = 0, a pull request object n = 1
IssueResps ==
    {HttpResp(k, 0) : k \in {"net_error", "http_error", "no_json", "list", "object"}}
    \cup {HttpResp("object", 1)}

PageResps ==
    {HttpResp(k, 0) : k \in {"net_error", "http_error", "no_json", "object"}}
    \cup {HttpResp("list", n) : n \in 0..MaxPageSize}

ReviewResps ==
    {HttpResp(k, 0) : k \in {"net_error", "http_error", "object"}}
    \cup {HttpResp("list", 1)}

TimelineResps ==
    {HttpResp(k, 0) : k \in {"net_error", "http_error", "no_json", "object", "list"}}

InitFetch ==
    /\ Idle
    /\ pc = "fetch"
    /\ call_in \in [issue : IssueResps,
                     pages : UNION {[1..n -> PageResps] : n \in 0..MaxPages},
                     reviews : ReviewResps,
                     timeline : TimelineResps,
                     max_comments : 0..MaxCommentsArg]
    /\ call_out = <<>>

FetchCall ==
    /\ pc = "fetch" /\ call_out = <<>>
    /\ call_out' = <<fetch_thread_url(call_in.issue, call_in.pages, call_in.reviews,
                                      call_in.timeline, call_in.max_comments)>>
    /\ UNCHANGED <<trackVars, pc, g_in, g_out, call_in>>

NextFetch == FetchCall

SpecFetch == InitFetch /\ [][NextFetch]_vars

FetchDone == pc = "fetch" /\ call_out # <<>>

\* C19: fetch_thread_url never raises, and when the issue request fails or
\* is answered with anything but a JSON object, or the timeline request is
\* answered with status 200 and something that is not a list, the document
\* returned has its error field set.
C19_NeverRaises ==
    FetchDone =>
        LET doc == call_out[1]
        IN /\ ~doc.raised
           /\ (\/ call_in.issue.kind # "object"
               \/ call_in.timeline.kind \in {"no_json", "object"}) => doc.error

-----------------------------------------------------------------------------
\* C20: the iteration of track() in which fetch_thread_url raises appends
\* no node, leaves knowledge_state and the rest of the queue as they are,
\* makes no summarizer and no scoring call, and the loop goes on with the
\* next entry.
C20_FetchFailureDropsEntry ==
    [][(/\ Len(fetches') = Len(fetches) + 1
        /\ fetches'[Len(fetches')].raised)
        => (/\ nodes' = nodes
            /\ knowledge_state' = knowledge_state
            /\ queue' = Tail(queue)
            /\ summary_calls' = summary_calls
            /\ last_call' = last_call
            /\ pc' = "loop")]_vars

\* the first seed's fetch raised, the second seed was fetched and recorded
C20_Witness ==
    /\ Len(fetches) = 2
    /\ fetches[1].raised
    /\ ~fetches[2].raised
    /\ Len(nodes) = 1
    /\ nodes[1].url = fetches[2].url
    /\ summary_calls = 1

-----------------------------------------------------------------------------
\* C21: a URL whose fetch met a network or parse error, whether
\* fetch_thread_url raised or returned a document with the error field
\* set, has no node recorded for it.
C21_FetchErrorDropsNode ==
    \A i \in DOMAIN fetches :
        (fetches[i].raised \/ fetches[i].error) =>
            \A j \in DOMAIN nodes : rstrip(nodes[j].url) # rstrip(fetches[i].url)

\* C22: without reasoning-service credentials track() fetches nothing,
\* records no node and returns no result.
C22_MissingCredentialsFatal ==
    ~has_key => (fetches = <<>> /\ nodes = <<>> /\ result = <<>>)

\* C23: every scored candidate score_candidates returns has a score from
\* 0.0 to 1.0 inclusive (0 to 10 tenths), whatever the service answered.
C23_ScoresInUnitRange ==
    GateDone =>
        \A i \in 1..Len(g_out[1].out) :
            g_out[1].out[i].score >= 0 /\ g_out[1].out[i].score <= 10

-----------------------------------------------------------------------------
\* one step of the fold
FoldStep ==
    /\ (Len(nodes') = Len(nodes) + 1) =>
          (\/ \E o \in KnowOutcomes :
                knowledge_state' =
                    update_knowledge(knowledge_state, nodes'[Len(nodes')].title, o)
           \/ (pc' = "crashed" /\ knowledge_state' = knowledge_state))
    /\ (nodes' = nodes) => (knowledge_state' = knowledge_state)
    /\ Len(nodes') \in {Len(nodes), Len(nodes) + 1}

-----------------------------------------------------------------------------
\* C25: the document fetch_github_issue returns holds at most max_comments
\* comments, for an issue and for a pull request.
C25_CommentCap ==
    (FetchDone /\ ~call_out[1].raised) =>
        call_out[1].n_comments <= call_in.max_comments

-----------------------------------------------------------------------------
\* fetch_thread.fetch_reddit
\*
\* The comment listing of the API is a forest; it is modelled by its nodes
\* in pre-order, each with its nesting depth and its kind: "t1" a comment,
\* "more" a placeholder. A node's parent is the nearest earlier node one
\* level up.

MaxNesting == 4

Comment(depth, kind) == [depth |-> depth, kind |-> kind]

ParentOf(listing, i) ==
    LET ups == {j \in 1..i - 1 : listing[j].depth = listing[i].depth - 1}
    IN IF ups = {} THEN 0 ELSE CHOOSE j \in ups : \A k \in ups : k <= j

\* _parse_comment keeps a node when it is a t1, its parent was kept, and the
\* parent is less than four levels deep (children are parsed if depth < 4);
\* kept holds the places of the nodes kept so far, tree the nodes themselves
RECURSIVE ParseFrom(_, _, _, _)
ParseFrom(listing, i, kept, tree) ==
    IF i > Len(listing) THEN tree
    ELSE LET n == listing[i]
             ok == /\ n.kind = "t1"
                   /\ \/ n.depth = 0
                      \/ /\ n.depth - 1 < MaxNesting
                         /\ ParentOf(listing, i) \in kept
         IN IF ok
            THEN ParseFrom(listing, i + 1, kept \cup {i}, Append(tree, n))
            ELSE ParseFrom(listing, i + 1, kept, tree)

\* _flatten walks the tree in pre-order and stops at max_comments nodes
Flatten(tree, max_comments) ==
    IF max_comments <= 0 THEN <<>>
    ELSE SubSeq(tree, 1, Min(Len(tree), max_comments))

RedditDoc(error, tree, comments) ==
    [error |-> error, comments_tree |-> tree, comments |-> comments]

\* resp "listing": status 200 and the [post, comments] JSON; anything else
\* raises inside the try and falls back to the web fetch
fetch_reddit(resp, listing, max_comments) ==
    IF resp # "listing" THEN RedditDoc(TRUE, <<>>, <<>>)
    ELSE LET tree == ParseFrom(listing, 1, {}, <<>>)
             flat == Flatten(tree, max_comments)
         IN RedditDoc(FALSE, tree, PySlicePrefix(flat, max_comments))

-----------------------------------------------------------------------------
\* A stand-alone call of fetch_reddit on a drawn comment listing

\* the shapes of the pre-order listings of n nodes: a node is at most one
\* level below the node before it, the first is at depth 0
RECURSIVE Shapes(_)
Shapes(n) ==
    IF n = 0 THEN {<<>>}
    ELSE UNION {{Append(l, d) : d \in 0..(IF l = <<>> THEN 0 ELSE l[Len(l)] + 1)} :
                l \in Shapes(n - 1)}

\* a listing of comments with at most one placeholder, at place more
Listing(shape, more) ==
    [i \in 1..Len(shape) |-> Comment(shape[i], IF i = more THEN "more" ELSE "t1")]

RedditListings ==
    {Listing(sh, m) : sh \in UNION {Shapes(n) : n \in 0..MaxListing}, m \in 0..MaxListing}

InitReddit ==
    /\ Idle
    /\ pc = "reddit"
    /\ call_in \in [resp : {"listing", "net_error"},
                     listing : RedditListings,
                     max_comments : 0..MaxCommentsArg]
    /\ call_out = <<>>

RedditCall ==
    /\ pc = "reddit" /\ call_out = <<>>
    /\ call_out' = <<fetch_reddit(call_in.resp, call_in.listing, call_in.max_comments)>>
    /\ UNCHANGED <<trackVars, pc, g_in, g_out, call_in>>

NextReddit == RedditCall

SpecReddit == InitReddit /\ [][NextReddit]_vars

RedditDone == pc = "reddit" /\ call_out # <<>>

\* C26: the comment tree fetch_reddit returns holds at most max_comments
\* comments over all depths, none of them nested deeper than depth 4.
C26_BoundedTree ==
    RedditDone =>
        LET tree == call_out[1].comments_tree
        IN /\ Len(tree) <= call_in.max_comments
           /\ \A i \in 1..Len(tree) : tree[i].depth <= MaxNesting

\* track() is one sequential loop: as long as an iteration or the return is
\* possible, it is eventually taken (every fetch, summarizer and scoring call
\* returns or raises).
SpecLive == Init /\ [][Next]_vars /\ WF_vars(Next)

\* The loop ends one way or the other: by returning or by an exception.
LoopEnds == <>(pc \in {"done", "crashed"})

\* C27: under any seed list, max_depth and max_per_level, and with every call
\* returning or raising, the loop of track() terminates with the queue empty
\* and the result object is returned, total_fetched being the number of
\* recorded nodes.
C27_TerminatesWithResult ==
    <>(/\ pc = "done"
       /\ queue = <<>>
       /\ result # <<>>
       /\ result[1].total_fetched = Len(nodes))

\* one iteration takes the front entry and leaves the others in their order,
\* new entries following them; what is fetched or recorded is the front entry
FifoStep ==
    (pc = "loop" /\ queue # <<>>) =>
        /\ Len(queue') >= Len(queue) - 1
        /\ SubSeq(queue', 1, Len(queue) - 1) = Tail(queue)
        /\ (Len(fetches') = Len(fetches) + 1) =>
              (/\ fetches'[Len(fetches')].url = Head(queue).url
               /\ fetches'[Len(fetches')].depth = Head(queue).depth)
        /\ (Len(nodes') = Len(nodes) + 1) =>
              (/\ nodes'[Len(nodes')].url = Head(queue).url
               /\ nodes'[Len(nodes')].depth = Head(queue).depth)

NonDecreasing(seq) ==
    \A i, j \in DOMAIN seq : i < j => seq[i].depth <= seq[j].depth

\* C28: the queue is consumed first-in first-out and its depths never
\* decrease from front to back, so fetches and nodes come in non-decreasing
\* depth order, no entry waits at a depth below that of something already
\* fetched, and a URL enqueued at several depths is recorded at the smallest.
C28_BreadthFirst ==
    /\ [](NonDecreasing(queue))
    /\ [](NonDecreasing(nodes))
    /\ [](NonDecreasing(fetches))
    /\ [](\A i \in DOMAIN fetches : \A j \in DOMAIN queue :
              fetches[i].depth <= queue[j].depth)
    /\ [](\A i \in DOMAIN nodes : \A e \in enqueued :
              e.url = rstrip(nodes[i].url) => nodes[i].depth <= e.depth)
    /\ [][FifoStep]_vars

\* a recorded URL was enqueued again below the depth of its node, while
\* entries of two depths wait in the queue and nodes of two depths exist
C28_Witness ==
    /\ \E i \in DOMAIN nodes : \E e \in enqueued :
          e.url = rstrip(nodes[i].url) /\ e.depth > nodes[i].depth
    /\ \E i, j \in DOMAIN queue : queue[i].depth < queue[j].depth
    /\ \E i, j \in DOMAIN nodes : nodes[i].depth < nodes[j].depth

\* what the gate can have assigned to an entry that passed it
PassedGate(e) ==
    \/ e.score >= threshold
    \/ e.score = DefaultScore /\ e.reason \in {"LLM unavailable", "parse error"}

SeedOrGated(e) ==
    IF e.depth = 0 THEN e.score = SeedScore /\ e.reason = "seed"
    ELSE PassedGate(e)

\* a node takes score and reason from the queue entry it was made from
NodeCarriesEntry ==
    (Len(nodes') = Len(nodes) + 1) =>
        /\ queue # <<>>
        /\ nodes'[Len(nodes')].score = Head(queue).score
        /\ nodes'[Len(nodes')].reason = Head(queue).reason

\* C29: a node of depth 0 has score 1.0 and reason "seed"; a node of depth > 0
\* has the score and reason of its queue entry, which the gate assigned: a
\* score >= threshold, or exactly 0.5 with reason "LLM unavailable" or
\* "parse error".
C29_NodeScores ==
    /\ [](\A i \in DOMAIN nodes : SeedOrGated(nodes[i]))
    /\ [](\A i \in DOMAIN queue : SeedOrGated(queue[i]))
    /\ [][NodeCarriesEntry]_vars

\* below a seed, one node that passed the threshold on its score and one that
\* came through a failed-open call with 0.5 under a threshold of 0.7
C29_Witness ==
    /\ threshold > DefaultScore
    /\ \E i, j, k \in DOMAIN nodes :
          /\ nodes[i].depth = 0 /\ nodes[i].reason = "seed"
          /\ nodes[j].depth > 0 /\ nodes[j].score >= threshold
          /\ nodes[k].depth > 0 /\ nodes[k].score = DefaultScore
          /\ nodes[k].reason \in {"LLM unavailable", "parse error"}

\* a fetch is made only for a URL put in visited by the same iteration
FetchMarks ==
    /\ visited \subseteq visited'
    /\ (Len(fetches') = Len(fetches) + 1) =>
          /\ rstrip(fetches'[Len(fetches')].url) \notin visited
          /\ rstrip(fetches'[Len(fetches')].url) \in visited'

\* C30: visited only grows; the URL of every fetch, raised or not, is in
\* visited from the step of its fetch on; a URL whose fetch raised is not
\* fetched a second time and has no node, whoever rediscovers it; there are
\* never more nodes than visited URLs.
C30_VisitedBeforeFetch ==
    /\ [][FetchMarks]_vars
    /\ [](\A i \in DOMAIN fetches : rstrip(fetches[i].url) \in visited)
    /\ [](\A i \in DOMAIN fetches : fetches[i].raised =>
              /\ \A j \in DOMAIN fetches :
                    j # i => rstrip(fetches[j].url) # rstrip(fetches[i].url)
              /\ \A j \in DOMAIN nodes :
                    rstrip(nodes[j].url) # rstrip(fetches[i].url))
    /\ [](Len(nodes) <= Cardinality(visited))

\* the run is over: the first fetch raised, a later document led back to that
\* URL, and visited holds more URLs than there are nodes
C30_Witness ==
    /\ pc = "done"
    /\ Len(fetches) >= 2
    /\ fetches[1].raised
    /\ \E e \in enqueued :
          e.depth > 0 /\ e.url = rstrip(fetches[1].url)
    /\ Len(nodes) < Cardinality(visited)

====
